---- MODULE Spec2Model ----
(***************************************************************************)
(* State-machine model of the DeepDive research orchestrator: the App      *)
(* component (src/services/gemini.ts lines 140-527), the three agents it   *)
(* awaits (lines 1-138) and the PlanReview editor (src/unnamed/part_001).  *)
(*                                                                         *)
(* JavaScript runs every handler to completion up to its next await, so    *)
(* one action is one synchronous segment of a handler; the continuation    *)
(* after an await is a separate action, enabled while the call is          *)
(* outstanding.  Text is a sequence of one-character strings, so trim and  *)
(* concatenation are computed, not assumed.                                *)
(***************************************************************************)
EXTENDS Integers, Sequences, FiniteSets, TLC

VARIABLES
    messages,     \* useState<Message[]>            (gemini.ts:150)
    artifact,     \* useState<ArtifactState>        (gemini.ts:159)
    currentPlan,  \* useState<ResearchPlan | null>  (gemini.ts:167)
    editors,      \* PlanReview `steps` state, one per rendered plan message
    planners,     \* handleInitialRequest invocations and where each stands
    loops,        \* handlePlanApproval invocations and where each stands
    clock,        \* the latest value Date.now() returned
    nEdits,       \* number of PlanReview edit operations performed so far
    removed,      \* the <<message, step id>> pairs handleRemove has taken out
    phaseLog,     \* phase values taken since the latest accepted submission
    failureSeen   \* a Planner/Researcher/Reporter failure since that submission

vars == <<messages, artifact, currentPlan, editors, planners, loops, clock,
          nEdits, removed, phaseLog, failureSeen>>

----------------------------------------------------------------------------
(* Bounds of the model *)

MaxUserEvents == 4  \* submissions, edits and approvals altogether
MaxRuns == 2        \* handleInitialRequest invocations that pass the trim test
MaxApprovals == 2   \* handlePlanApproval invocations
MaxPlanSteps == 2   \* steps in a Planner response
MaxSteps == 2       \* steps in a PlanReview working copy
MaxEdits == 1       \* PlanReview add/remove/edit operations
MaxChunks == 2      \* chunks one report stream delivers
MaxClock == 1       \* largest value Date.now() returns

----------------------------------------------------------------------------
(* Values *)

Undefined == "undefined"
\* An optional value is a sequence of length 0 (null, undefined) or 1.
NoPlan == <<>>

Phases == {"idle", "planning", "reviewing", "researching", "reporting", "completed"}

\* What the user may have typed in the topic field.
Inputs == { <<>>, <<" ">>, <<" ", "a">> }

\* What the user may have typed in a step field of PlanReview.
Queries == { <<" ">>, <<"s">> }

\* String.prototype.trim: strips leading and trailing white space.
RECURSIVE TrimLeft(_)
TrimLeft(s) ==
    IF s = <<>> THEN <<>>
    ELSE IF Head(s) = " " THEN TrimLeft(Tail(s)) ELSE s

RECURSIVE TrimRight(_)
TrimRight(s) ==
    IF s = <<>> THEN <<>>
    ELSE IF s[Len(s)] = " " THEN TrimRight(SubSeq(s, 1, Len(s) - 1)) ELSE s

Trim(s) == TrimRight(TrimLeft(s))

Last(s) == s[Len(s)]

\* The user's budget: submissions, edits and approvals made so far.
UserEvents == Len(planners) + nEdits + Len(loops)
MaySubmit == UserEvents < MaxUserEvents /\ Len(planners) < MaxRuns
MayEdit == UserEvents < MaxUserEvents /\ nEdits < MaxEdits
MayApprove == UserEvents < MaxUserEvents /\ Len(loops) < MaxApprovals

\* The phase values taken, in order; assigning the value already held is no change.
LogPhase(log, p) ==
    IF log # <<>> /\ Last(log) = p THEN log ELSE Append(log, p)

----------------------------------------------------------------------------
(* Initial state: gemini.ts:149-167 *)

WelcomeMessage ==
    [id |-> "welcome", role |-> "system",
     content |-> <<"Welcome to DeepDive.">>,
     isThinking |-> FALSE, plan |-> NoPlan]

InitialArtifact ==
    [title |-> <<"Research Hub">>, content |-> <<>>, phase |-> "idle",
     sources |-> <<>>, currentStepId |-> Undefined]

Init ==
    /\ messages = <<WelcomeMessage>>
    /\ artifact = InitialArtifact
    /\ currentPlan = NoPlan
    /\ editors = <<>>
    /\ planners = <<>>
    /\ loops = <<>>
    /\ clock = 0
    /\ nEdits = 0
    /\ removed = {}
    /\ phaseLog = <<>>
    /\ failureSeen = FALSE

----------------------------------------------------------------------------
(* The clock: Date.now() never goes back.  A synchronous segment is short, so
   every Date.now() of one segment returns the same value, `now`. *)

Now(now) == now \in clock..MaxClock /\ clock' = now

----------------------------------------------------------------------------
(* PHASE 1: PLAN -- handleInitialRequest, gemini.ts:183-241 *)

UserMessage(topic, now) ==
    [id |-> ToString(now), role |-> "user", content |-> topic,
     isThinking |-> FALSE, plan |-> NoPlan]

ThinkingId(now) == ToString(now + 1)

ThinkingMessage(topic, now) ==
    [id |-> ThinkingId(now), role |-> "model",
     content |-> <<"Coordinator: Activating Planner agent for ">> \o topic,
     isThinking |-> TRUE, plan |-> NoPlan]

PlanningArtifact(topic) ==
    [title |-> topic, content |-> <<>>, phase |-> "planning",
     sources |-> <<>>, currentStepId |-> Undefined]

\* The synchronous part, up to `await createResearchPlan(topic)`.
handleInitialRequest(input, now) ==
    IF Trim(input) = <<>>
    THEN UNCHANGED vars
    ELSE /\ Now(now)
         /\ messages' = messages \o <<UserMessage(input, now), ThinkingMessage(input, now)>>
         /\ artifact' = PlanningArtifact(input)
         /\ planners' = Append(planners,
                [topic |-> input, thinkingId |-> ThinkingId(now), pc |-> "await"])
         /\ phaseLog' = <<"planning">>
         /\ failureSeen' = FALSE
         /\ UNCHANGED <<currentPlan, editors, loops, nEdits, removed>>

\* What the Planner service may answer (gemini.ts:11-38): the call rejects, or
\* resolves with a text that is empty, not JSON, JSON without `steps`, or JSON
\* with a list of steps.
PlannerQuery(i) == IF i % 2 = 1 THEN <<"q">> ELSE <<"r">>

PlannerResponsesUpTo(max) ==
    { [kind |-> k, steps |-> <<>>] : k \in {"rejected", "unparsable", "empty", "nosteps"} }
    \cup { [kind |-> "json", steps |-> [i \in 1..n |-> PlannerQuery(i)]] :
             n \in 1..max }

PlannerResponses == PlannerResponsesUpTo(MaxPlanSteps)

\* createResearchPlan throws: the call rejects, JSON.parse throws, or
\* json.steps is undefined and `.map` throws.
createResearchPlanThrows(resp) ==
    resp.kind \in {"rejected", "unparsable", "nosteps"}

\* createResearchPlan, gemini.ts:38-48 (`response.text || '{"steps": []}'`).
createResearchPlan(topic, resp) ==
    LET steps == IF resp.kind = "empty" THEN <<>> ELSE resp.steps
    IN  [topic |-> topic,
         steps |-> [i \in 1..Len(steps) |->
                      [id |-> "step-" \o ToString(i - 1),
                       query |-> steps[i],
                       status |-> "pending"]]]

\* setMessages(prev => prev.map(m => m.id === thinkingId ? {...} : m))
ResolvePlaceholder(msgs, thinkingId, plan) ==
    [k \in 1..Len(msgs) |->
        IF msgs[k].id = thinkingId
        THEN [msgs[k] EXCEPT !.isThinking = FALSE,
                             !.content = <<"Planner: I've outlined a strategy.">>,
                             !.plan = <<plan>>]
        ELSE msgs[k]]

\* A PlanReview is rendered for every message that carries a plan; its `steps`
\* state is taken from the plan when it mounts (part_001:11) and kept after.
MountEditors(msgs, eds) ==
    [k \in {j \in 1..Len(msgs) : msgs[j].plan # NoPlan} |->
        IF k \in DOMAIN eds THEN eds[k] ELSE msgs[k].plan[1].steps]

PlannerFailedMessage(now) ==
    [id |-> ToString(now), role |-> "model",
     content |-> <<"Planner failed to generate a plan. Please try again.">>,
     isThinking |-> FALSE, plan |-> NoPlan]

\* The continuation of handleInitialRequest after the await: gemini.ts:215-240.
createResearchPlanSettles(p, resp, now) ==
    /\ planners[p].pc = "await"
    /\ IF createResearchPlanThrows(resp)
       THEN /\ Now(now)
            /\ messages' = Append(messages, PlannerFailedMessage(now))
            /\ artifact' = [artifact EXCEPT !.phase = "idle"]
            /\ planners' = [planners EXCEPT ![p].pc = "failed"]
            /\ phaseLog' = LogPhase(phaseLog, "idle")
            /\ failureSeen' = TRUE
            /\ UNCHANGED <<currentPlan, editors>>
       ELSE LET plan == createResearchPlan(planners[p].topic, resp)
                msgs == ResolvePlaceholder(messages, planners[p].thinkingId, plan)
            IN  /\ currentPlan' = <<plan>>
                /\ messages' = msgs
                /\ editors' = MountEditors(msgs, editors)
                /\ artifact' = [artifact EXCEPT !.phase = "reviewing"]
                /\ planners' = [planners EXCEPT ![p].pc = "planned"]
                /\ phaseLog' = LogPhase(phaseLog, "reviewing")
                /\ UNCHANGED <<failureSeen, clock>>
    /\ UNCHANGED <<loops, nEdits, removed>>

PlannerSettles ==
    \E p \in 1..Len(planners) : \E resp \in PlannerResponses : \E now \in 0..MaxClock :
        createResearchPlanSettles(p, resp, now)

----------------------------------------------------------------------------
(* The topic field and the send button: gemini.ts:309-316, 383-398 *)

\* `disabled` of the <input> (line 389).
InputDisabled == artifact.phase # "idle" /\ artifact.phase # "completed"

\* `disabled` of the send <button> (line 394).
SendDisabled(input) == Trim(input) = <<>> \/ InputDisabled

\* handleKeyDown for Enter without Shift.
handleKeyDown(input, now) ==
    IF artifact.phase = "idle" \/ artifact.phase = "completed"
    THEN handleInitialRequest(input, now)
    ELSE UNCHANGED vars

\* The user presses Enter in the topic field; a disabled field takes no keys.
KeyDown ==
    \E input \in Inputs : \E now \in 0..MaxClock :
        MaySubmit /\ ~InputDisabled /\ handleKeyDown(input, now)

\* The user clicks the send button; a disabled button takes no clicks.
SendClick ==
    \E input \in Inputs : \E now \in 0..MaxClock :
        MaySubmit /\ ~SendDisabled(input) /\ handleInitialRequest(input, now)

----------------------------------------------------------------------------
(* PlanReview: src/unnamed/part_001 *)

NewStepId(now) == "new-" \o ToString(now)

\* handleAdd with `text` in the new-step field (part_001:14-23).
handleAdd(m, text, now) ==
    IF Trim(text) = <<>>
    THEN UNCHANGED vars
    ELSE /\ Now(now)
         /\ editors' = [editors EXCEPT ![m] =
                Append(@, [id |-> NewStepId(now), query |-> text, status |-> "pending"])]
         /\ nEdits' = nEdits + 1
         /\ UNCHANGED <<messages, artifact, currentPlan, planners, loops,
                        removed, phaseLog, failureSeen>>

\* handleRemove (part_001:25-27).
handleRemove(m, id) ==
    /\ editors' = [editors EXCEPT ![m] = SelectSeq(@, LAMBDA s : s.id # id)]
    /\ nEdits' = nEdits + 1
    /\ removed' = IF \E k \in 1..Len(editors[m]) : editors[m][k].id = id
                  THEN removed \cup {<<m, id>>} ELSE removed
    /\ UNCHANGED <<messages, artifact, currentPlan, planners, loops, clock,
                   phaseLog, failureSeen>>

\* handleEdit (part_001:29-31).
handleEdit(m, id, text) ==
    /\ editors' = [editors EXCEPT ![m] =
            [k \in 1..Len(@) |-> IF @[k].id = id THEN [@[k] EXCEPT !.query = text]
                                 ELSE @[k]]]
    /\ nEdits' = nEdits + 1
    /\ UNCHANGED <<messages, artifact, currentPlan, planners, loops, clock,
                   removed, phaseLog, failureSeen>>

\* The ids of the step rows a PlanReview shows (part_001:47-63).
RenderedIds(m) == { editors[m][k].id : k \in 1..Len(editors[m]) }

AddStep ==
    \E m \in DOMAIN editors : \E text \in Queries : \E now \in 0..MaxClock :
        MayEdit /\ Len(editors[m]) < MaxSteps /\ handleAdd(m, text, now)

RemoveStep ==
    \E m \in DOMAIN editors : \E id \in RenderedIds(m) :
        MayEdit /\ handleRemove(m, id)

EditStep ==
    \E m \in DOMAIN editors : \E id \in RenderedIds(m) : \E text \in Queries :
        MayEdit /\ handleEdit(m, id, text)

----------------------------------------------------------------------------
(* AGENT 2: RESEARCHER -- executeResearchStep, gemini.ts:53-87 *)

FailedFinding == "Failed to fetch info for this step."

\* Grounding chunks of a response: `web.title` and `web.uri`, "" when missing.
ChunkA == [title |-> "A", uri |-> "u1"]
ChunkA2 == [title |-> "A again", uri |-> "u1"]
ChunkNoTitle == [title |-> "", uri |-> "u3"]

\* What the search-grounded call may answer: it throws, or resolves.
ResearchResponses ==
    { [ok |-> FALSE, text |-> "", chunks |-> <<>>],
      [ok |-> TRUE, text |-> "facts", chunks |-> <<ChunkNoTitle, ChunkA, ChunkA2>>] }

\* A faulty variant: the catch block returns the default finding instead of the sentinel.
executeResearchStepNoSentinel(step, resp) ==
    [finding |-> IF ~resp.ok \/ resp.text = "" THEN "No information found."
                 ELSE resp.text,
     sources |-> IF ~resp.ok THEN <<>>
                 ELSE SelectSeq(resp.chunks, LAMBDA c : c.uri # "" /\ c.title # "")]

executeResearchStep(step, resp) ==
    IF ~resp.ok
    THEN [finding |-> FailedFinding, sources |-> <<>>]
    ELSE [finding |-> IF resp.text = "" THEN "No information found." ELSE resp.text,
          sources |-> SelectSeq(resp.chunks,
                                LAMBDA c : c.uri # "" /\ c.title # "")]

----------------------------------------------------------------------------
(* PHASE 2 and 3 -- handlePlanApproval, gemini.ts:244-307 *)

ApprovalMessage(now) ==
    [id |-> ToString(now), role |-> "model",
     content |-> <<"Plan approved. Deploying Researcher agent now.">>,
     isThinking |-> FALSE, plan |-> NoPlan]

ReportMessage(now) ==
    [id |-> ToString(now), role |-> "model",
     content |-> <<"Research complete. Reporter agent is compiling the final artifact...">>,
     isThinking |-> FALSE, plan |-> NoPlan]

\* An invocation that has returned, or whose promise has rejected, holds nothing.
Returned(pc) ==
    [plan |-> [topic |-> <<>>, steps |-> <<>>], i |-> 1, pc |-> pc,
     completedSteps |-> <<>>, degraded |-> {}, reportArg |-> <<>>,
     nChunks |-> 0, streamed |-> <<>>, calls |-> <<>>]

\* A faulty variant: the spread forgets to force the status.
CompletedStepKeepsStatus(step, result) ==
    [id |-> step.id, query |-> step.query, status |-> step.status,
     finding |-> result.finding, sources |-> result.sources]

\* `{ ...step, status: 'completed', ...result }` (line 268)
CompletedStep(step, result) ==
    [id |-> step.id, query |-> step.query, status |-> "completed",
     finding |-> result.finding, sources |-> result.sources]

\* The updater of lines 272-279.
AccumulateSources(prev, result) ==
    LET existingUrls == { prev.sources[k].uri : k \in 1..Len(prev.sources) }
        uniqueNew == SelectSeq(result.sources, LAMBDA s : s.uri \notin existingUrls)
    IN  [prev EXCEPT !.sources = prev.sources \o uniqueNew]

\* Lines 286-295, up to the await inside generateFinalReportStream: the phase
\* becomes reporting and the Reporter is called with the topic and the accumulator.
EnterReporting(l, lp, now) ==
    /\ Now(now)
    /\ artifact' = [artifact EXCEPT !.phase = "reporting", !.currentStepId = Undefined]
    /\ phaseLog' = LogPhase(phaseLog, "reporting")
    /\ messages' = Append(messages, ReportMessage(now))
    /\ loops' = [loops EXCEPT ![l] =
            [lp EXCEPT !.pc = "report",
                       !.reportArg = <<[topic |-> lp.plan.topic,
                                        completedSteps |-> lp.completedSteps]>>]]

\* A faulty variant: the plan is handed over as the Planner returned it.
ApprovedPlanAsPlanned(m) == messages[m].plan[1]

\* A faulty variant: the topic is normalised on the way.
ApprovedPlanTrimmed(m) ==
    [topic |-> Trim(messages[m].plan[1].topic), steps |-> editors[m]]

\* What the PlanReview of message m hands over: onApprove({ ...plan, steps })
\* (part_001:88).
ApprovedPlan(m) == [topic |-> messages[m].plan[1].topic, steps |-> editors[m]]

\* The synchronous part of handlePlanApproval for the plan of message m: up to
\* the first `await executeResearchStep(step)`, or up to the await inside
\* generateFinalReportStream when the plan has no steps.
handlePlanApproval(m, now) ==
    LET approvedPlan == ApprovedPlan(m)
        lp == [plan |-> approvedPlan, i |-> 1, pc |-> "research",
               completedSteps |-> <<>>, degraded |-> {}, reportArg |-> <<>>,
               nChunks |-> 0, streamed |-> <<>>,
               calls |-> IF approvedPlan.steps = <<>> THEN <<>>
                         ELSE <<approvedPlan.steps[1]>>]
        msgs == Append(messages, ApprovalMessage(now))
        log == LogPhase(phaseLog, "researching")
    IN  /\ Now(now)
        /\ currentPlan' = <<approvedPlan>>
        /\ IF approvedPlan.steps = <<>>
           THEN /\ artifact' = [artifact EXCEPT !.phase = "reporting",
                                                !.currentStepId = Undefined]
                /\ phaseLog' = LogPhase(log, "reporting")
                /\ messages' = Append(msgs, ReportMessage(now))
                /\ loops' = Append(loops,
                        [lp EXCEPT !.pc = "report",
                                   !.reportArg = <<[topic |-> approvedPlan.topic,
                                                    completedSteps |-> <<>>]>>])
           ELSE /\ artifact' = [artifact EXCEPT !.phase = "researching",
                                    !.currentStepId = approvedPlan.steps[1].id]
                /\ phaseLog' = log
                /\ messages' = msgs
                /\ loops' = Append(loops, lp)
        /\ UNCHANGED <<editors, planners, nEdits, removed, failureSeen>>

\* The Approve button of a rendered PlanReview is clicked (part_001:87-93).
ApproveClick ==
    \E m \in DOMAIN editors : \E now \in 0..MaxClock :
        MayApprove /\ handlePlanApproval(m, now)

\* `await executeResearchStep(step)` settles: lines 265-282, up to the delay.
ResearchSettles(l, resp) ==
    LET lp == loops[l]
        step == lp.plan.steps[lp.i]
        result == executeResearchStep(step, resp)
    IN  /\ lp.pc = "research"
        /\ loops' = [loops EXCEPT ![l] =
                [lp EXCEPT !.pc = "delay",
                           !.completedSteps = Append(@, CompletedStep(step, result)),
                           !.degraded = IF resp.ok THEN @ ELSE @ \cup {lp.i}]]
        /\ artifact' = AccumulateSources(artifact, result)
        /\ failureSeen' = (failureSeen \/ ~resp.ok)
        /\ UNCHANGED <<messages, currentPlan, editors, planners, clock, nEdits,
                       removed, phaseLog>>

ResearchStepSettles ==
    \E l \in 1..Len(loops) : \E resp \in ResearchResponses : ResearchSettles(l, resp)

\* The pacing delay of line 282 elapses: the loop takes its next step (line
\* 262), or leaves the loop and enters the report phase.
DelayElapses(l, now) ==
    LET lp == loops[l]
    IN  /\ lp.pc = "delay"
        /\ IF lp.i < Len(lp.plan.steps)
           THEN /\ loops' = [loops EXCEPT ![l] =
                        [lp EXCEPT !.pc = "research", !.i = lp.i + 1,
                                   !.calls = Append(@, lp.plan.steps[lp.i + 1])]]
                /\ artifact' = [artifact EXCEPT
                                  !.currentStepId = lp.plan.steps[lp.i + 1].id]
                /\ UNCHANGED <<messages, phaseLog, clock>>
           ELSE EnterReporting(l, lp, now)
        /\ UNCHANGED <<currentPlan, editors, planners, nEdits, removed, failureSeen>>

PacingDelay ==
    \E l \in 1..Len(loops) : \E now \in 0..MaxClock : DelayElapses(l, now)

----------------------------------------------------------------------------
(* AGENT 3: REPORTER -- generateFinalReportStream, gemini.ts:91-138 *)

\* The text the k-th chunk of a stream may carry; <<>> is a chunk without text.
ChunkTexts(k) == { <<>>, <<IF k % 2 = 1 THEN "x" ELSE "y">> }

\* The updater of lines 299-302.
onChunk(prev, chunk) == [prev EXCEPT !.content = prev.content \o chunk]

\* The stream yields a chunk: lines 133-137.
StreamChunk(l, text) ==
    LET lp == loops[l]
    IN  /\ lp.pc = "report"
        /\ lp.nChunks < MaxChunks
        /\ artifact' = IF text # <<>> THEN onChunk(artifact, text) ELSE artifact
        /\ loops' = [loops EXCEPT ![l] = [lp EXCEPT !.nChunks = @ + 1,
                                                    !.streamed = @ \o text]]
        /\ UNCHANGED <<messages, currentPlan, editors, planners, clock, nEdits,
                       removed, phaseLog, failureSeen>>

ReportChunk ==
    \E l \in 1..Len(loops) : \E text \in ChunkTexts(loops[l].nChunks + 1) :
        StreamChunk(l, text)

\* The stream ends and generateFinalReportStream resolves: line 306.
StreamEnds(l) ==
    LET lp == loops[l]
    IN  /\ lp.pc = "report"
        /\ artifact' = [artifact EXCEPT !.phase = "completed"]
        /\ phaseLog' = LogPhase(phaseLog, "completed")
        /\ loops' = [loops EXCEPT ![l] = Returned("done")]
        /\ UNCHANGED <<messages, currentPlan, editors, planners, clock, nEdits,
                       removed, failureSeen>>

ReportEnds ==
    \E l \in 1..Len(loops) : StreamEnds(l)

\* generateContentStream or the stream rejects: nothing catches it, the
\* promise of handlePlanApproval rejects and line 306 is never reached.
StreamRejects(l) ==
    LET lp == loops[l]
    IN  /\ lp.pc = "report"
        /\ loops' = [loops EXCEPT ![l] = Returned("rejected")]
        /\ failureSeen' = TRUE
        /\ UNCHANGED <<messages, artifact, currentPlan, editors, planners, clock,
                       nEdits, removed, phaseLog>>

ReportRejects ==
    \E l \in 1..Len(loops) : StreamRejects(l)

----------------------------------------------------------------------------
(* The program with its presentation layer *)

Next ==
    \/ KeyDown
    \/ SendClick
    \/ PlannerSettles
    \/ AddStep
    \/ RemoveStep
    \/ EditStep
    \/ ApproveClick
    \/ ResearchStepSettles
    \/ PacingDelay
    \/ ReportChunk
    \/ ReportEnds
    \/ ReportRejects

Spec == Init /\ [][Next]_vars

----------------------------------------------------------------------------
(* The core alone, driven by the two events of its interface: submitTopic
   reaches the handlers whatever the presentation layer has disabled, and
   approvePlan hands over a plan as the Planner returned it. *)

MaxCoreRuns == 2        \* submitTopic events that pass the trim test
MaxCoreApprovals == 1   \* approvePlan events

EnterPressed ==
    \E input \in Inputs : \E now \in 0..MaxClock :
        Len(planners) < MaxCoreRuns /\ handleKeyDown(input, now)

SendPressed ==
    \E input \in Inputs : \E now \in 0..MaxClock :
        Len(planners) < MaxCoreRuns /\ handleInitialRequest(input, now)

approvePlan ==
    \E m \in DOMAIN editors : \E now \in 0..MaxClock :
        Len(loops) < MaxCoreApprovals /\ handlePlanApproval(m, now)

NextCore ==
    \/ EnterPressed
    \/ SendPressed
    \/ PlannerSettles
    \/ approvePlan
    \/ ResearchStepSettles
    \/ PacingDelay
    \/ ReportChunk
    \/ ReportEnds
    \/ ReportRejects

SpecCore == Init /\ [][NextCore]_vars

----------------------------------------------------------------------------
(* One review: a single run whose plan the user edits through the four
   operations of PlanReview (add, remove, edit, approve) and approves once.
   removeStep and editStep are handed any id, one no row carries included. *)

MaxReviewRuns == 1        \* submissions that pass the trim test
MaxReviewApprovals == 1   \* approvals
MaxReviewPlanSteps == 3   \* steps in a Planner response
MaxReviewSteps == 3       \* steps in the working copy
MaxReviewEdits == 3       \* add/remove/edit operations

\* An id no step carries.
AbsentId == "step-9"

submitTopic ==
    \E input \in Inputs : \E now \in 0..MaxClock :
        Len(planners) < MaxReviewRuns /\ handleKeyDown(input, now)

planReceived ==
    \E p \in 1..Len(planners) : \E resp \in PlannerResponsesUpTo(MaxReviewPlanSteps) :
        \E now \in 0..MaxClock : createResearchPlanSettles(p, resp, now)

addStep ==
    \E m \in DOMAIN editors : \E text \in Queries : \E now \in 0..MaxClock :
        /\ nEdits < MaxReviewEdits
        /\ Len(editors[m]) < MaxReviewSteps
        /\ handleAdd(m, text, now)

removeStep ==
    \E m \in DOMAIN editors : \E id \in RenderedIds(m) \cup {AbsentId} :
        nEdits < MaxReviewEdits /\ handleRemove(m, id)

editStep ==
    \E m \in DOMAIN editors : \E id \in RenderedIds(m) \cup {AbsentId} :
        \E text \in Queries :
            nEdits < MaxReviewEdits /\ handleEdit(m, id, text)

approve ==
    \E m \in DOMAIN editors : \E now \in 0..MaxClock :
        Len(loops) < MaxReviewApprovals /\ handlePlanApproval(m, now)

NextReview ==
    \/ submitTopic
    \/ planReceived
    \/ addStep
    \/ removeStep
    \/ editStep
    \/ approve
    \/ ResearchStepSettles
    \/ PacingDelay
    \/ ReportChunk
    \/ ReportEnds
    \/ ReportRejects

SpecReview == Init /\ [][NextReview]_vars

----------------------------------------------------------------------------
(* One run under fairness: every Planner, Researcher and Reporter call
   settles, every pacing delay elapses, and the user approves a plan that is
   under review. *)

approveUnderReview ==
    \E m \in DOMAIN editors : \E now \in 0..MaxClock :
        artifact.phase = "reviewing" /\ handlePlanApproval(m, now)

NextLive ==
    \/ submitTopic
    \/ planReceived
    \/ approveUnderReview
    \/ ResearchStepSettles
    \/ PacingDelay
    \/ ReportChunk
    \/ ReportEnds
    \/ ReportRejects

Fairness ==
    /\ WF_vars(planReceived)
    /\ WF_vars(approveUnderReview)
    /\ WF_vars(ResearchStepSettles)
    /\ WF_vars(PacingDelay)
    /\ WF_vars(ReportEnds \/ ReportRejects)

SpecLive == Init /\ [][NextLive]_vars /\ Fairness

----------------------------------------------------------------------------
(* Properties *)

IsPrefix(s, t) == Len(s) <= Len(t) /\ s = SubSeq(t, 1, Len(s))

PhaseOrder == <<"planning", "reviewing", "researching", "reporting", "completed">>

\* C1: after a submission accepted in idle or completed, and absent any
\* Planner, Researcher or Reporter failure, the phase values taken are
\* planning, reviewing, researching, reporting, completed in that order, none
\* skipped and none repeated (the values taken so far are a prefix of that list).
C1_PhaseSequence ==
    ~failureSeen => IsPrefix(phaseLog, PhaseOrder)

\* C2: a submitTopic request made while the phase is planning, reviewing,
\* researching or reporting changes neither the artifact (the phase included)
\* nor the transcript and starts no Planner call.
C2_SubmitRejectedByCore ==
    [][\A input \in Inputs : \A now \in 0..MaxClock :
          (InputDisabled /\ (handleInitialRequest(input, now) \/ handleKeyDown(input, now)))
              => UNCHANGED <<artifact, messages, planners>>]_vars

\* C3: ArtifactState.sources never holds two entries with the same uri.
C3_NoDuplicateUri ==
    \A j, k \in 1..Len(artifact.sources) :
        j # k => artifact.sources[j].uri # artifact.sources[k].uri

\* C4: the accumulator handed to the Reporter has one entry per step of the
\* approved plan, entry k carries the id and the query of approved step k, and
\* every entry has status completed, degraded or not.
C4_AccumulatorMatchesPlan ==
    \A l \in 1..Len(loops) :
        loops[l].reportArg # <<>> =>
            LET cs == loops[l].reportArg[1].completedSteps
                st == loops[l].plan.steps
            IN  /\ Len(cs) = Len(st)
                /\ \A k \in 1..Len(st) :
                      /\ cs[k].id = st[k].id
                      /\ cs[k].query = st[k].query
                      /\ cs[k].status = "completed"

\* A two-step plan, one step degraded, has been handed to the Reporter.
C4_Witness ==
    \E l \in 1..Len(loops) :
        /\ loops[l].reportArg # <<>>
        /\ Len(loops[l].plan.steps) = 2
        /\ loops[l].plan.steps[1].query # loops[l].plan.steps[2].query
        /\ loops[l].degraded = {2}

\* C5: when a report stream ends and the phase becomes completed, the content
\* is the concatenation, in arrival order, of the chunks that stream delivered.
C5_ContentIsStream ==
    [][\A l \in 1..Len(loops) :
          (loops[l].pc = "report" /\ loops'[l].pc = "done")
              => (artifact'.phase = "completed"
                  /\ artifact'.content = loops[l].streamed)]_vars

\* C6: a research call that fails internally does not abort the run.  Its
\* accumulator entry has the sentinel finding and no sources, and the loop has
\* moved on behind it ...
C6_DegradedEntries ==
    \A l \in 1..Len(loops) : \A k \in loops[l].degraded :
        /\ k <= Len(loops[l].completedSteps)
        /\ loops[l].completedSteps[k].finding = FailedFinding
        /\ loops[l].completedSteps[k].sources = <<>>
        /\ loops[l].pc \in {"delay", "research", "report"}
        /\ loops[l].pc = "research" => loops[l].i > k
        /\ loops[l].pc = "report" =>
               Len(loops[l].completedSteps) = Len(loops[l].plan.steps)

\* ... the failing step changes neither the artifact nor the transcript and
\* leaves the loop where a successful step leaves it ...
C6_FailureStep ==
    \A l \in 1..Len(loops) :
        (loops[l].pc = "research" /\ loops'[l].pc = "delay"
            /\ loops[l].i \in loops'[l].degraded)
        => /\ artifact' = artifact
           /\ messages' = messages
           /\ loops'[l].i = loops[l].i
           /\ loops'[l].plan = loops[l].plan

\* ... and the end of its report stream sets the phase to completed.
C6_StillCompletes ==
    \A l \in 1..Len(loops) :
        (loops[l].pc = "report" /\ loops[l].degraded # {} /\ loops'[l].pc = "done")
        => artifact'.phase = "completed"

C6_StepFailureDoesNotAbort ==
    []C6_DegradedEntries /\ [][C6_FailureStep /\ C6_StillCompletes]_vars

\* Step 1 of 2 failed, step 2 was executed after it and did not fail, and the
\* run is in its report phase.
C6_Witness ==
    \E l \in 1..Len(loops) :
        /\ loops[l].pc = "report"
        /\ loops[l].degraded = {1}
        /\ Len(loops[l].completedSteps) = 2
        /\ loops[l].completedSteps[2].finding = "facts"

\* C7: when the Planner call fails, the failure message is appended, the
\* artifact is back in its reset state (no content, no sources, no current
\* step) with phase idle, and no review and no research or report call is
\* started for that run.
C7_PlannerFailureResets ==
    [][\A p \in 1..Len(planners) :
          (planners[p].pc = "await" /\ planners'[p].pc = "failed")
          => /\ Len(messages') = Len(messages) + 1
             /\ Last(messages').content = PlannerFailedMessage(0).content
             /\ artifact'.phase = "idle"
             /\ artifact'.content = <<>>
             /\ artifact'.sources = <<>>
             /\ artifact'.currentStepId = Undefined
             /\ loops' = loops
             /\ editors' = editors]_vars

PhaseRank(p) ==
    CASE p = "idle" -> 0
      [] p = "planning" -> 1
      [] p = "reviewing" -> 2
      [] p = "researching" -> 3
      [] p = "reporting" -> 4
      [] p = "completed" -> 5

\* C8: within a run the phase never moves backward in the order idle,
\* planning, reviewing, researching, reporting, completed (a run begins by
\* entering planning and may be abandoned by a return to idle), and planning
\* is entered from idle or completed only.
C8_PhaseMonotonic ==
    [][/\ artifact'.phase \notin {"planning", "idle"}
            => PhaseRank(artifact'.phase) >= PhaseRank(artifact.phase)
       /\ (artifact'.phase = "planning" /\ artifact.phase # "planning")
            => artifact.phase \in {"idle", "completed"}]_vars

\* The invocations of handlePlanApproval that have not returned.
LiveLoops == { l \in 1..Len(loops) : loops[l].pc \in {"research", "delay", "report"} }

\* C9: at most one plan is live: under review, or being executed by a step
\* loop or a report stream.
C9_OneLivePlan ==
    Cardinality(LiveLoops) + (IF artifact.phase = "reviewing" THEN 1 ELSE 0) <= 1

\* C10: at most one research call is outstanding at any instant.
C10_OneResearchCall ==
    Cardinality({ l \in 1..Len(loops) : loops[l].pc = "research" }) <= 1

\* C11: when currentStepId is set, it is the id of a step of the approved plan
\* being executed and the phase is researching; it is unset whenever the phase
\* is reporting or completed.
C11_CurrentStepOfActivePlan ==
    /\ artifact.currentStepId # Undefined =>
          /\ artifact.phase = "researching"
          /\ currentPlan # NoPlan
          /\ \E k \in 1..Len(currentPlan[1].steps) :
                currentPlan[1].steps[k].id = artifact.currentStepId
    /\ artifact.phase \in {"reporting", "completed"} =>
          artifact.currentStepId = Undefined

\* C12: for one approval of a plan with n steps the research operation is
\* invoked exactly n times, once per approved step, in the order of the
\* approved plan and with the query text as the user edited it: the plan a run
\* executes is the working copy at the moment of approval, the calls made so
\* far are the first steps of that plan in order, one call is outstanding per
\* step reached, and all n have been made when the Reporter is called.
C12_ApprovalTakesWorkingCopy ==
    Len(loops') = Len(loops) + 1 =>
        \E m \in DOMAIN editors : Last(loops').plan.steps = editors[m]

C12_CallsSoFar ==
    \A l \in LiveLoops :
        /\ IsPrefix(loops[l].calls, loops[l].plan.steps)
        /\ loops[l].pc \in {"research", "delay"} => Len(loops[l].calls) = loops[l].i
        /\ loops[l].pc = "report" => Len(loops[l].calls) = Len(loops[l].plan.steps)

C12_OneCallPerApprovedStep ==
    []C12_CallsSoFar /\ [][C12_ApprovalTakesWorkingCopy]_vars

\* Planner step 2 of 3 was removed, a step was added, and the three calls of the
\* approved plan were made for orig1, orig3 and the added step, in that order.
C12_Witness ==
    \E l \in 1..Len(loops) :
        /\ loops[l].pc = "report"
        /\ Len(loops[l].calls) = 3
        /\ loops[l].calls[1].id = "step-0"
        /\ loops[l].calls[2].id = "step-2"
        /\ loops[l].calls[3].id = NewStepId(0)
        /\ loops[l].calls[3].query = <<"s">>
        /\ \E m \in DOMAIN editors : <<m, "step-1">> \in removed

\* C13: addStep(query) leaves the working steps unchanged when query is empty
\* or only white space; otherwise it appends exactly one step at the end, with
\* status pending, the given query and an id no step of the working copy
\* carries ...
C13_AddEffect ==
    \A m \in DOMAIN editors : \A text \in Queries : \A now \in 0..MaxClock :
        handleAdd(m, text, now) =>
            IF Trim(text) = <<>>
            THEN editors' = editors
            ELSE /\ Len(editors'[m]) = Len(editors[m]) + 1
                 /\ SubSeq(editors'[m], 1, Len(editors[m])) = editors[m]
                 /\ Last(editors'[m]).status = "pending"
                 /\ Last(editors'[m]).query = text
                 /\ Last(editors'[m]).id \notin RenderedIds(m)
                 /\ \A o \in DOMAIN editors \ {m} : editors'[o] = editors[o]

\* ... so that the step ids of a working copy are pairwise distinct after any
\* sequence of add, remove and edit operations.
C13_DistinctIds ==
    \A m \in DOMAIN editors : \A j, k \in 1..Len(editors[m]) :
        j # k => editors[m][j].id # editors[m][k].id

C13_AddStepFreshId ==
    []C13_DistinctIds /\ [][C13_AddEffect]_vars

\* C14: an id that removeStep has taken out of a working copy is never carried
\* by a step of that working copy again: no later addStep reuses it.
C14_RemovedIdNotReused ==
    \A m \in DOMAIN editors : \A k \in 1..Len(editors[m]) :
        <<m, editors[m][k].id>> \notin removed

\* The positions of working copy m whose step differs before and after a step.
ChangedRows(m) == { k \in 1..Len(editors[m]) : editors'[m][k] # editors[m][k] }

\* C15: editStep(id, query) changes only the query of the step whose id
\* matches: the number and the order of the steps are unchanged, every step
\* keeps its id and status, the matching step has the new query, at most one
\* step differs from before and no step with another id does; when no step
\* has that id the working copies are left identical.
C15_EditChangesOneQuery ==
    [][\A m \in DOMAIN editors : \A id \in RenderedIds(m) \cup {AbsentId} :
         \A text \in Queries :
           handleEdit(m, id, text) =>
             /\ Len(editors'[m]) = Len(editors[m])
             /\ \A k \in 1..Len(editors[m]) :
                   /\ editors'[m][k].id = editors[m][k].id
                   /\ editors'[m][k].status = editors[m][k].status
                   /\ editors[m][k].id = id => editors'[m][k].query = text
                   /\ editors[m][k].id # id => editors'[m][k] = editors[m][k]
             /\ Cardinality(ChangedRows(m)) <= 1
             /\ id \notin RenderedIds(m) => editors' = editors
             /\ \A o \in DOMAIN editors \ {m} : editors'[o] = editors[o]]_vars

\* C16: removeStep(id) removes exactly the one step with the matching id and
\* keeps all other steps in their order; it leaves the list unchanged when no
\* step has that id; and it removes the only step of a one-step list.
C16_RemoveTakesOneStep ==
    [][\A m \in DOMAIN editors : \A id \in RenderedIds(m) \cup {AbsentId} :
           handleRemove(m, id) =>
             /\ id \notin RenderedIds(m) => editors' = editors
             /\ id \in RenderedIds(m) =>
                  \E k \in 1..Len(editors[m]) :
                     /\ editors[m][k].id = id
                     /\ editors'[m] = SubSeq(editors[m], 1, k - 1)
                                        \o SubSeq(editors[m], k + 1, Len(editors[m]))
             /\ \A o \in DOMAIN editors \ {m} : editors'[o] = editors[o]]_vars

\* The topic the user submitted for the run whose placeholder message m was.
SubmittedTopic(m) ==
    planners[CHOOSE p \in 1..Len(planners) :
                planners[p].thinkingId = messages[m].id].topic

\* C17: approve() hands the Orchestrator a plan whose steps are the working
\* steps in their current order and whose topic is the topic of the plan the
\* Planner returned ...
C17_ApproveHandsOver ==
    Len(loops') = Len(loops) + 1 =>
        \E m \in DOMAIN editors :
            /\ Last(loops').plan.steps = editors[m]
            /\ Last(loops').plan.topic = SubmittedTopic(m)
            /\ currentPlan' = <<Last(loops').plan>>

\* ... no add, remove or edit changes that topic ...
C17_TopicFixed ==
    \A m \in DOMAIN editors : messages[m].plan[1].topic = SubmittedTopic(m)

\* ... and the report operation of the run is invoked with it.
C17_ReportTopic ==
    \A l \in 1..Len(loops) :
        loops[l].reportArg # <<>> => loops[l].reportArg[1].topic = loops[l].plan.topic

C17_ApprovedPlanKeepsTopic ==
    [](C17_TopicFixed /\ C17_ReportTopic) /\ [][C17_ApproveHandsOver]_vars

\* An edited working copy was approved and the Reporter was called with the
\* topic as submitted, white space included.
C17_Witness ==
    \E l \in 1..Len(loops) : \E m \in DOMAIN editors :
        /\ loops[l].reportArg # <<>>
        /\ loops[l].reportArg[1].topic = <<" ", "a">>
        /\ loops[l].plan.steps # messages[m].plan[1].steps
        /\ Len(loops[l].plan.steps) = 2
        /\ nEdits = 2

\* C18: entering planning from idle or from completed resets the artifact to
\* content '', sources [], phase planning, title = topic and no current step,
\* and appends to the transcript the user's message followed by one
\* placeholder entry with isThinking = true ...
C18_EnterPlanning ==
    (artifact.phase \in {"idle", "completed"} /\ artifact'.phase = "planning") =>
        LET topic == Last(planners').topic
            n == Len(messages)
        IN  /\ Len(planners') = Len(planners) + 1
            /\ artifact' = [title |-> topic, content |-> <<>>, phase |-> "planning",
                            sources |-> <<>>, currentStepId |-> Undefined]
            /\ Len(messages') = n + 2
            /\ SubSeq(messages', 1, n) = messages
            /\ messages'[n + 1].role = "user"
            /\ messages'[n + 1].content = topic
            /\ messages'[n + 1].isThinking = FALSE
            /\ messages'[n + 2].role = "model"
            /\ messages'[n + 2].isThinking = TRUE

\* ... so that nothing of the previous run's content or sources is in the
\* artifact of the new run: while the new run waits for its plan, the artifact
\* has no content and no sources.
C18_NothingSurvives ==
    (planners # <<>> /\ Last(planners).pc = "await") =>
        (artifact.content = <<>> /\ artifact.sources = <<>>)

C18_PlanningResetsArtifact ==
    []C18_NothingSurvives /\ [][C18_EnterPlanning]_vars

\* The transcript positions whose entry differs before and after a step.
ChangedEntries == { k \in 1..Len(messages) : messages'[k] # messages[k] }

\* C19: the transcript is append-only: no step removes or reorders an entry,
\* and an existing entry is modified only on entering reviewing, where exactly
\* one entry, the thinking placeholder of the run, is replaced in place by an
\* entry with isThinking = false that carries the received plan, every other
\* entry and the length of the transcript being unchanged.
C19_TranscriptAppendOnly ==
    [][/\ Len(messages') >= Len(messages)
       /\ ChangedEntries # {} =>
             \E p \in 1..Len(planners) :
                 planners[p].pc = "await" /\ planners'[p].pc = "planned"
       /\ \A p \in 1..Len(planners) :
             (planners[p].pc = "await" /\ planners'[p].pc = "planned") =>
                 /\ artifact'.phase = "reviewing"
                 /\ Len(messages') = Len(messages)
                 /\ Cardinality(ChangedEntries) = 1
                 /\ \A k \in ChangedEntries :
                       /\ messages[k].id = planners[p].thinkingId
                       /\ messages[k].isThinking = TRUE
                       /\ messages'[k].id = messages[k].id
                       /\ messages'[k].isThinking = FALSE
                       /\ messages'[k].plan = currentPlan']_vars

\* C20: when every Planner, Researcher and Reporter call settles and the user
\* approves a plan under review, a run that has entered planning reaches
\* completed or returns to idle: the phase does not stay in planning,
\* reviewing, researching or reporting for ever.
C20_RunTerminates ==
    (artifact.phase \in {"planning", "reviewing", "researching", "reporting"})
        ~> (artifact.phase \in {"completed", "idle"})

\* C21: each step of the live plan moves from pending to researching while it
\* is the current step and then to completed or failed: the current step of
\* the live plan has status researching, and once the phase is reporting or
\* completed no step of the live plan has status pending.
C21_LivePlanStatuses ==
    currentPlan # NoPlan =>
        \A k \in 1..Len(currentPlan[1].steps) :
            LET step == currentPlan[1].steps[k]
            IN  /\ (artifact.phase = "researching"
                      /\ artifact.currentStepId = step.id)
                        => step.status = "researching"
                /\ artifact.phase \in {"reporting", "completed"}
                        => step.status # "pending"

\* C22: approving a working copy reduced to zero steps is accepted.  The
\* approval takes the run from reviewing through researching into reporting
\* with no research call, no current step, no sources and the Reporter invoked
\* with an empty completed-steps list ...
C22_ApproveEmpty ==
    (Len(loops') = Len(loops) + 1 /\ \A m \in DOMAIN editors : editors[m] = <<>>) =>
        /\ Last(loops').pc = "report"
        /\ Last(loops').calls = <<>>
        /\ Last(loops').reportArg = <<[topic |-> Last(planners).topic,
                                       completedSteps |-> <<>>]>>
        /\ currentPlan'[1].steps = <<>>
        /\ artifact'.phase = "reporting"
        /\ artifact'.currentStepId = Undefined
        /\ artifact'.sources = <<>>
        /\ phaseLog' = <<"planning", "reviewing", "researching", "reporting">>

\* ... the run stays so while the Reporter streams and until the next
\* submission ...
C22_EmptyRun ==
    (Len(planners) = 1 /\ Len(loops) = 1 /\ currentPlan[1].steps = <<>>) =>
        /\ loops[1].pc \in {"report", "done", "rejected"}
        /\ loops[1].calls = <<>>
        /\ artifact.currentStepId = Undefined
        /\ artifact.sources = <<>>
        /\ artifact.phase \in {"reporting", "completed"}
        /\ IsPrefix(phaseLog, PhaseOrder)

\* ... and the end of the stream completes it.
C22_EmptyRunCompletes ==
    (Len(planners) = 1 /\ Len(loops) = 1 /\ currentPlan[1].steps = <<>>
        /\ loops[1].pc = "report" /\ loops'[1].pc = "done") =>
        (artifact'.phase = "completed" /\ phaseLog' = PhaseOrder)

C22_ZeroStepPlanRuns ==
    []C22_EmptyRun /\ [][C22_ApproveEmpty /\ C22_EmptyRunCompletes]_vars

\* C23: in every state whose phase is not planning no transcript entry has
\* isThinking = true: each thinking placeholder is resolved by the time the
\* run leaves planning, whether the Planner call succeeded or failed.
C23_NoThinkingOutsidePlanning ==
    artifact.phase # "planning" =>
        \A k \in 1..Len(messages) : messages[k].isThinking = FALSE

\* C24: a rejection of the Reporter stream is not caught.  The rejecting step
\* leaves the artifact and the transcript as they are, the phase being
\* reporting and the content exactly the chunks that stream delivered ...
C24_RejectionStep ==
    \A l \in 1..Len(loops) :
        (loops[l].pc = "report" /\ loops'[l].pc = "rejected") =>
            /\ artifact' = artifact
            /\ messages' = messages
            /\ artifact.phase = "reporting"
            /\ artifact.content = loops[l].streamed

\* ... and from then on the phase stays reporting, never completed, the
\* content is kept and no submission starts a new run.
C24_AfterRejection ==
    (\E l \in 1..Len(loops) : loops[l].pc = "rejected") =>
        /\ artifact'.phase = "reporting"
        /\ artifact'.content = artifact.content
        /\ planners' = planners

C24_ReporterFailureSticks ==
    [][C24_RejectionStep /\ C24_AfterRejection]_vars

\* C25: all transcript entries have pairwise distinct ids.
C25_DistinctEntryIds ==
    \A j, k \in 1..Len(messages) : j # k => messages[j].id # messages[k].id

\* C26: artifact fields change only in their own phase: the content is empty
\* in every state whose phase is planning, reviewing or researching ...
C26_ContentOnlyWhenReporting ==
    artifact.phase \in {"planning", "reviewing", "researching"} =>
        artifact.content = <<>>

\* ... and a step taken while the phase is reporting or completed leaves the
\* sources as they are (the reset on entering planning apart).
C26_SourcesOnlyWhenResearching ==
    (artifact.phase \in {"reporting", "completed"} /\ artifact'.phase # "planning") =>
        artifact'.sources = artifact.sources

C26_FieldsChangeInOwnPhase ==
    []C26_ContentOnlyWhenReporting /\ [][C26_SourcesOnlyWhenResearching]_vars

====
